---- MODULE Spec2Model ----
(***************************************************************************)
(* Dynamic SQL construction in express-jobly: the partial-update builder   *)
(* sqlForPartialUpdate (helpers/sql.js) and the Job model's update and     *)
(* findAll (models/job.js), which build a statement text and a positional  *)
(* parameter list and hand both to db.query.                               *)
(*                                                                         *)
(* SQL texts are strings, built by concatenation exactly as the template   *)
(* literals of the source build them (runs of white space inside the       *)
(* multi-line literals are written as one blank).  JavaScript values are   *)
(* tagged records; a JavaScript object is the sequence of its own          *)
(* enumerable string-keyed properties in insertion order.                  *)
(***************************************************************************)
EXTENDS Integers, Sequences, FiniteSets, TLC

VARIABLES call, queries, result, http

vars == <<call, queries, result, http>>

(***************************************************************************)
(* Bounds of the model.                                                    *)
(***************************************************************************)
\* the largest number of properties of an update payload
MaxKeys == 2
\* job ids are 1..MaxId
MaxId == 2

(***************************************************************************)
(* JavaScript values.                                                      *)
(***************************************************************************)
Undefined == [type |-> "undefined", num |-> 0, str |-> ""]

Num(n) == [type |-> "number", num |-> n, str |-> ""]

Str(s) == [type |-> "string", num |-> 0, str |-> s]

Bool(b) == [type |-> "boolean", num |-> IF b THEN 1 ELSE 0, str |-> ""]

\* ToBoolean, as the || operator applies it to its left operand
Truthy(v) ==
  CASE v.type = "undefined" -> FALSE
    [] v.type = "number" -> v.num # 0
    [] v.type = "string" -> v.str # ""
    [] v.type = "boolean" -> v.num = 1

\* ToString, as a template literal applies it to an interpolated value
ToJsString(v) ==
  CASE v.type = "undefined" -> "undefined"
    [] v.type = "number" -> ToString(v.num)
    [] v.type = "string" -> v.str
    [] v.type = "boolean" -> IF v.num = 1 THEN "true" ELSE "false"

(***************************************************************************)
(* JavaScript objects: sequences of [key, value] with distinct keys.       *)
(***************************************************************************)
DistinctKeys(obj) ==
  \A i, j \in 1..Len(obj) : obj[i].key = obj[j].key => i = j

\* every object with at most maxLen properties, its keys from keys and the
\* value of key k from valsOf[k]
JsObjects(keys, valsOf, maxLen) ==
  UNION { { obj \in [1..n -> [key : keys, value : UNION { valsOf[k] : k \in keys }]] :
              /\ DistinctKeys(obj)
              /\ \A i \in 1..n : obj[i].value \in valsOf[obj[i].key] }
          : n \in 0..maxLen }

\* Object.keys(obj)
ObjectKeys(obj) == [i \in 1..Len(obj) |-> obj[i].key]

\* Object.values(obj)
ObjectValues(obj) == [i \in 1..Len(obj) |-> obj[i].value]

HasKey(obj, k) == \E i \in 1..Len(obj) : obj[i].key = k

\* obj[k]: the property's value, undefined when obj has no such property
Get(obj, k) ==
  IF HasKey(obj, k)
    THEN (CHOOSE p \in { obj[i] : i \in 1..Len(obj) } : p.key = k).value
    ELSE Undefined

\* a sequence in the opposite order
Reverse(seq) == [i \in 1..Len(seq) |-> seq[Len(seq) + 1 - i]]

\* the sequence 1, 2, ..., n
OneTo(n) == [i \in 1..n |-> i]

\* Array.prototype.join
RECURSIVE Join(_, _)
Join(parts, sep) ==
  IF Len(parts) = 0 THEN ""
  ELSE IF Len(parts) = 1 THEN parts[1]
  ELSE parts[1] \o sep \o Join(Tail(parts), sep)

(***************************************************************************)
(* Errors (expressError).                                                  *)
(***************************************************************************)
NoError == [name |-> "", message |-> ""]

BadRequestError(msg) == [name |-> "BadRequestError", message |-> msg]

NotFoundError(msg) == [name |-> "NotFoundError", message |-> msg]

(***************************************************************************)
(* helpers/sql.js: sqlForPartialUpdate(dataToUpdate, jsToSql)              *)
(***************************************************************************)
\* a builder that forgets the field map
ColumnName_keyOnly(jsToSql, colName) == colName

\* jsToSql[colName] || colName
ColumnName(jsToSql, colName) ==
  IF Truthy(Get(jsToSql, colName))
    THEN ToJsString(Get(jsToSql, colName))
    ELSE colName

\* the callback of keys.map: `"${jsToSql[colName] || colName}"=$${idx + 1}`,
\* idx the 0-based index of colName in keys
SetFragment(jsToSql, colName, idx) ==
  "\"" \o ColumnName(jsToSql, colName) \o "\"=$" \o ToString(idx + 1)

\* a builder that returns the values in another order than the keys
PartialUpdateValues_reversed(dataToUpdate) == Reverse(ObjectValues(dataToUpdate))

\* the values the function returns: Object.values(dataToUpdate)
PartialUpdateValues(dataToUpdate) == ObjectValues(dataToUpdate)

\* a builder without the test for an empty payload
sqlForPartialUpdate_noEmptyCheck(dataToUpdate, jsToSql) ==
  LET keys == ObjectKeys(dataToUpdate)
      cols == [i \in 1..Len(keys) |-> SetFragment(jsToSql, keys[i], i - 1)]
  IN  [error |-> NoError,
       setCols |-> Join(cols, ", "),
       values |-> PartialUpdateValues(dataToUpdate)]

\* the whole function: a thrown error, or {setCols, values}
sqlForPartialUpdate(dataToUpdate, jsToSql) ==
  LET keys == ObjectKeys(dataToUpdate)
      cols == [i \in 1..Len(keys) |-> SetFragment(jsToSql, keys[i], i - 1)]
  IN  IF Len(keys) = 0
        THEN [error |-> BadRequestError("No data"), setCols |-> "", values |-> <<>>]
        ELSE [error |-> NoError,
              setCols |-> Join(cols, ", "),
              values |-> PartialUpdateValues(dataToUpdate)]

(***************************************************************************)
(* db.query(text, values): the statement goes to the database, which       *)
(* answers with the rows it matched.  The database is outside the          *)
(* repository: which rows it answers with is its choice.                   *)
(***************************************************************************)
Ids == { Num(i) : i \in 1..MaxId }

\* a row of jobs as the RETURNING and SELECT lists of models/job.js shape it
JobRow(id) ==
  [id |-> id, title |-> Str("t"), salary |-> Num(100), equity |-> Str("0"),
   companyHandle |-> Str("c1")]

Query(text, values) == [text |-> text, values |-> values]

Returned(v) == [error |-> NoError, value |-> v]

Thrown(e) == [error |-> e, value |-> <<>>]

(***************************************************************************)
(* models/job.js: Job.update(id, data)                                     *)
(***************************************************************************)
\* an index that forgets the + 1
JobIdIndex_offByOne(values) == "$" \o ToString(Len(values))

\* const jobIdIndex = "$" + (values.length + 1)
JobIdIndex(values) == "$" \o ToString(Len(values) + 1)

\* the template literal sqlQuery
UpdateSql(setCols, jobIdIndex) ==
  "UPDATE jobs SET " \o setCols \o " WHERE id = " \o jobIdIndex
    \o " RETURNING id, title, salary, equity, company_handle AS \"companyHandle\""

\* the argument list of db.query: [...values, id]
UpdateParams(values, id) == values \o <<id>>

\* the field map Job.update hands to sqlForPartialUpdate: {}
JobFieldMap == <<>>

\* the statements Job.update issues, none when sqlForPartialUpdate throws
UpdateQueries(id, data) ==
  LET r == sqlForPartialUpdate(data, JobFieldMap)
  IN  IF r.error # NoError
        THEN <<>>
        ELSE <<Query(UpdateSql(r.setCols, JobIdIndex(r.values)),
                     UpdateParams(r.values, id))>>

\* what Job.update returns or throws when the database answers rows
UpdateResult(id, data, rows) ==
  LET r == sqlForPartialUpdate(data, JobFieldMap)
  IN  IF r.error # NoError THEN Thrown(r.error)
      ELSE IF Len(rows) = 0
        THEN Thrown(NotFoundError("No job: " \o ToJsString(id)))
        ELSE Returned(rows[1])

(***************************************************************************)
(* models/job.js: Job.create(data)                                         *)
(***************************************************************************)
CreateSql ==
  "INSERT INTO jobs (title, salary, equity, company_handle) VALUES ($1, $2, $3, $4) "
    \o "RETURNING id, title, salary, equity, company_handle AS \"companyHandle\""

\* [data.title, data.salary, data.equity, data.companyHandle]
CreateParams(data) ==
  <<Get(data, "title"), Get(data, "salary"), Get(data, "equity"),
    Get(data, "companyHandle")>>

\* the error of a statement the database refuses
DbError == [name |-> "error", message |-> "database"]

\* the row INSERT ... RETURNING answers
CreatedRow(data) ==
  [id |-> Num(1), title |-> Get(data, "title"), salary |-> Get(data, "salary"),
   equity |-> Get(data, "equity"), companyHandle |-> Get(data, "companyHandle")]

\* the statement Job.create issues; a refused statement answers no rows
CreateQueries(data, refused) ==
  <<[text |-> CreateSql, values |-> CreateParams(data),
     rows |-> IF refused THEN <<>> ELSE <<CreatedRow(data)>>]>>

\* Job.create returns result.rows[0]; db.query throws when the statement is refused
CreateResult(data, refused) ==
  IF refused THEN Thrown(DbError) ELSE Returned(CreatedRow(data))

(***************************************************************************)
(* models/job.js: Job.get(id)                                              *)
(***************************************************************************)
\* a statement of the log together with the rows the database answered
Answered(q, rows) == [text |-> q.text, values |-> q.values, rows |-> rows]

\* the job lookup
GetJobSql ==
  "SELECT id, title, salary, equity, company_handle AS \"companyHandle\" "
    \o "FROM jobs WHERE id = $1"

\* the company lookup
GetCompanySql ==
  "SELECT handle, name, description, num_employees AS \"numEmployees\", "
    \o "logo_url AS \"logoUrl\" FROM companies WHERE handle = $1"

\* a row of jobs whose company is handle
JobRowWith(id, handle) == [JobRow(id) EXCEPT !.companyHandle = Str(handle)]

\* a row of companies as the SELECT list of Job.get shapes it
CompanyRow(handle) ==
  [handle |-> handle, name |-> Str("n"), description |-> Str("d"),
   numEmployees |-> Num(10), logoUrl |-> Str("u")]

\* a fetch that sends the company lookup whether or not a job was found
GetQueries_alwaysBoth(id, jobRows, companyRows) ==
  <<Answered(Query(GetJobSql, <<id>>), jobRows),
    Answered(Query(GetCompanySql,
                   <<IF Len(jobRows) = 0 THEN id ELSE jobRows[1].companyHandle>>),
             companyRows)>>

\* the statements Job.get issues, in order, with the rows answered: the
\* company lookup is behind the throw of line 109
GetQueries(id, jobRows, companyRows) ==
  IF Len(jobRows) = 0
    THEN <<Answered(Query(GetJobSql, <<id>>), jobRows)>>
    ELSE <<Answered(Query(GetJobSql, <<id>>), jobRows),
           Answered(Query(GetCompanySql, <<jobRows[1].companyHandle>>), companyRows)>>

\* delete job.companyHandle; job.company = companyResults.rows[0]
NestCompany(job, companyRows) ==
  [id |-> job.id, title |-> job.title, salary |-> job.salary, equity |-> job.equity,
   company |-> IF Len(companyRows) = 0 THEN Undefined ELSE companyRows[1]]

\* what Job.get returns or throws
GetResult(id, jobRows, companyRows) ==
  IF Len(jobRows) = 0
    THEN Thrown(NotFoundError("No job: " \o ToJsString(id)))
    ELSE Returned(NestCompany(jobRows[1], companyRows))

(***************************************************************************)
(* models/job.js: Job.remove(id)                                           *)
(***************************************************************************)
RemoveSql == "DELETE FROM jobs WHERE id = $1 RETURNING id"

\* the statement Job.remove issues
RemoveQueries(id, rows) == <<Answered(Query(RemoveSql, <<id>>), rows)>>

\* a removal that does not look at what the statement matched
RemoveResult_silent(id, rows) == Returned(Undefined)

\* Job.remove returns nothing, or throws
RemoveResult(id, rows) ==
  IF Len(rows) = 0
    THEN Thrown(NotFoundError("No job: " \o ToJsString(id)))
    ELSE Returned(Undefined)

(***************************************************************************)
(* models/job.js: Job.findAll({ minSalary, hasEquity, title } = {})        *)
(***************************************************************************)
\* let query = `SELECT ... LEFT JOIN companies AS c ON c.handle = j.company_handle`
FindAllBase ==
  "SELECT j.id, j.title, j.salary, j.equity, j.company_handle AS \"companyHandle\", "
    \o "c.name AS \"companyName\" FROM jobs j "
    \o "LEFT JOIN companies AS c ON c.handle = j.company_handle"

\* let queryWhereClauses = []; let queryParameters = []
NoFilter == [clauses |-> <<>>, params |-> <<>>]

\* if (minSalary !== undefined) { push(minSalary); push(`salary >= $${length}`) }
AddMinSalary(f, minSalary) ==
  IF minSalary # Undefined
    THEN LET params == Append(f.params, minSalary)
         IN  [params |-> params,
              clauses |-> Append(f.clauses, "salary >= $" \o ToString(Len(params)))]
    ELSE f

\* a flag that filters whenever it is given, true or false
AddHasEquity_whenDefined(f, hasEquity) ==
  IF hasEquity # Undefined
    THEN [params |-> f.params, clauses |-> Append(f.clauses, "equity > 0")]
    ELSE f

\* if (hasEquity === true) { push(`equity > 0`) }
AddHasEquity(f, hasEquity) ==
  IF hasEquity = Bool(TRUE)
    THEN [params |-> f.params, clauses |-> Append(f.clauses, "equity > 0")]
    ELSE f

\* a title clause numbered before its value is pushed
AddTitle_staleIndex(f, title) ==
  IF title # Undefined
    THEN [params |-> Append(f.params, Str("%" \o ToJsString(title) \o "%")),
          clauses |-> Append(f.clauses, "title ILIKE $" \o ToString(Len(f.params)))]
    ELSE f

\* a title written into the statement text instead of bound
AddTitle_inlined(f, title) ==
  IF title # Undefined
    THEN [params |-> f.params,
          clauses |-> Append(f.clauses,
                             "title ILIKE '%" \o ToJsString(title) \o "%'")]
    ELSE f

\* if (title !== undefined) { push(`%${title}%`); push(`title ILIKE $${length}`) }
AddTitle(f, title) ==
  IF title # Undefined
    THEN LET params == Append(f.params, Str("%" \o ToJsString(title) \o "%"))
         IN  [params |-> params,
              clauses |-> Append(f.clauses, "title ILIKE $" \o ToString(Len(params)))]
    ELSE f

\* a builder that walks the criteria in the order they were supplied
RECURSIVE AddInSupplyOrder(_, _)
AddInSupplyOrder(f, criteria) ==
  IF Len(criteria) = 0 THEN f
  ELSE LET k == criteria[1].key
           v == criteria[1].value
           g == CASE k = "minSalary" -> AddMinSalary(f, v)
                  [] k = "hasEquity" -> AddHasEquity(f, v)
                  [] k = "title" -> AddTitle(f, v)
       IN  AddInSupplyOrder(g, Tail(criteria))

FindAllFilter_supplyOrder(criteria) == AddInSupplyOrder(NoFilter, criteria)

\* the three tests in the order of the source, on the destructured criteria
FindAllFilter(criteria) ==
  AddTitle(AddHasEquity(AddMinSalary(NoFilter, Get(criteria, "minSalary")),
                        Get(criteria, "hasEquity")),
           Get(criteria, "title"))

\* a WHERE keyword appended whether or not a clause was emitted
WhereSql_always(clauses) == " WHERE " \o Join(clauses, " AND ")

\* if (queryWhereClauses.length > 0) query += " WHERE " + join(" AND ")
WhereSql(clauses) ==
  IF Len(clauses) > 0 THEN " WHERE " \o Join(clauses, " AND ") ELSE ""

\* the statement Job.findAll issues
FindAllQuery(criteria) ==
  LET f == FindAllFilter(criteria)
  IN  Query(FindAllBase \o WhereSql(f.clauses) \o " ORDER BY title", f.params)

(***************************************************************************)
(* The inputs the operations are called with.                              *)
(***************************************************************************)
\* payloads of the direct calls of sqlForPartialUpdate (helpers/sql.test.js)
SqlKeys == {"firstName", "age", "zzz"}

SqlValsOf == [k \in SqlKeys |-> {Str("FirstnameTest"), Num(50)}]

SqlPayloads == JsObjects(SqlKeys, SqlValsOf, MaxKeys)

\* field maps: physical column names are non-empty strings
FieldMaps ==
  { <<>>,
    <<[key |-> "firstName", value |-> Str("first_name")],
      [key |-> "age", value |-> Str("age")]>>,
    <<[key |-> "firstName", value |-> Str("first_name")]>>,
    <<[key |-> "age", value |-> Str("col_age")]>> }

\* data of Job.update: Job.update itself accepts any object
UpdateKeys == {"title", "salary", "equity", "id", "company_handle"}

UpdateValsOf ==
  [k \in UpdateKeys |->
  CASE k = "title" -> {Str("x"), Str("y")}
    [] k = "salary" -> {Num(5), Num(6)}
    [] k = "equity" -> {Str("0.5")}
    [] k = "id" -> {Num(9)}
    [] k = "company_handle" -> {Str("c2")}]

UpdatePayloads == JsObjects(UpdateKeys, UpdateValsOf, MaxKeys)

\* criteria of Job.findAll, supplied in any order, a field absent or undefined
CriteriaKeys == {"minSalary", "hasEquity", "title"}

CriteriaValsOf ==
  [k \in CriteriaKeys |->
  CASE k = "minSalary" -> {Undefined, Num(0), Num(100)}
    [] k = "hasEquity" -> {Undefined, Bool(TRUE), Bool(FALSE)}
    [] k = "title" -> {Undefined, Str(""), Str("eng")}]

CriteriaSets == JsObjects(CriteriaKeys, CriteriaValsOf, Cardinality(CriteriaKeys))

\* the answers of the database to a statement about one job, or to the listing
JobAnswers(id) == { <<>>, <<JobRow(id)>> }

\* the company handles of the job rows
Handles == {"c1", "c2"}

\* the answers to the job lookup of Job.get
GetJobAnswers(id) == { <<>> } \cup { <<JobRowWith(id, h)>> : h \in Handles }

\* the answers to the company lookup that follows the job rows: no row, or the
\* row of the handle asked for
CompanyAnswers(jobRows) ==
  IF Len(jobRows) = 0
    THEN { <<>> }
    ELSE { <<>>, <<CompanyRow(jobRows[1].companyHandle)>> }

\* the answers to the DELETE ... RETURNING id of Job.remove
RemoveAnswers(id) == { <<>>, <<[id |-> id]>> }

(***************************************************************************)
(* The state: the operation called last, the statements it handed to       *)
(* db.query in order, what it returned or threw, and, when a route handler *)
(* made the call, what the handler did with res and next.                  *)
(***************************************************************************)
NoCall == [op |-> "none", id |-> Undefined, data |-> <<>>, jsToSql |-> <<>>]

\* no handler running
NoHttp ==
  [route |-> "none", validates |-> FALSE, errors |-> <<>>, events |-> <<>>,
   sent |-> <<>>, next |-> <<>>]

Init ==
  /\ call = NoCall
  /\ queries = <<>>
  /\ result = Returned(<<>>)
  /\ http = NoHttp

Idle == call = NoCall /\ http = NoHttp

\* a direct call sqlForPartialUpdate(dataToUpdate, jsToSql)
CallSqlForPartialUpdate ==
  /\ Idle
  /\ \E dataToUpdate \in SqlPayloads, jsToSql \in FieldMaps :
       LET r == sqlForPartialUpdate(dataToUpdate, jsToSql)
       IN  /\ call' = [op |-> "sqlForPartialUpdate", id |-> Undefined,
                       data |-> dataToUpdate, jsToSql |-> jsToSql]
           /\ queries' = <<>>
           /\ result' = IF r.error # NoError
                          THEN Thrown(r.error)
                          ELSE Returned([setCols |-> r.setCols, values |-> r.values])
  /\ http' = NoHttp

\* the statements of a call with the rows the database answered to each
AllAnswered(qs, rows) == [i \in 1..Len(qs) |-> Answered(qs[i], rows)]

\* Job.update(id, data)
Update ==
  /\ Idle
  /\ \E id \in Ids, data \in UpdatePayloads : \E rows \in JobAnswers(id) :
       /\ call' = [op |-> "update", id |-> id, data |-> data, jsToSql |-> JobFieldMap]
       /\ queries' = AllAnswered(UpdateQueries(id, data), rows)
       /\ result' = UpdateResult(id, data, rows)
  /\ http' = NoHttp

\* Job.findAll(criteria)
FindAll ==
  /\ Idle
  /\ \E criteria \in CriteriaSets, rows \in JobAnswers(Num(1)) :
       /\ call' = [op |-> "findAll", id |-> Undefined, data |-> criteria,
                   jsToSql |-> <<>>]
       /\ queries' = <<FindAllQuery(criteria)>>
       /\ result' = Returned(rows)
  /\ http' = NoHttp

\* Job.get(id)
GetJob ==
  /\ Idle
  /\ \E id \in Ids : \E jobRows \in GetJobAnswers(id) :
     \E companyRows \in CompanyAnswers(jobRows) :
       /\ call' = [op |-> "get", id |-> id, data |-> <<>>, jsToSql |-> <<>>]
       /\ queries' = GetQueries(id, jobRows, companyRows)
       /\ result' = GetResult(id, jobRows, companyRows)
  /\ http' = NoHttp

\* Job.remove(id)
Remove ==
  /\ Idle
  /\ \E id \in Ids : \E rows \in RemoveAnswers(id) :
       /\ call' = [op |-> "remove", id |-> id, data |-> <<>>, jsToSql |-> <<>>]
       /\ queries' = RemoveQueries(id, rows)
       /\ result' = RemoveResult(id, rows)
  /\ http' = NoHttp

\* the caller has its answer; the structures of the call are dropped
Finish ==
  /\ ~Idle
  /\ call' = NoCall
  /\ queries' = <<>>
  /\ result' = Returned(<<>>)
  /\ http' = NoHttp

(***************************************************************************)
(* Reading a statement text back: the placeholders and the quoted          *)
(* identifiers that occur in it.                                           *)
(***************************************************************************)
Digits == <<"0", "1", "2", "3", "4", "5", "6", "7", "8", "9">>

IsDigit(c) == \E d \in 1..10 : Digits[d] = c

DigitValue(c) == (CHOOSE d \in 1..10 : Digits[d] = c) - 1

CharAt(s, i) == SubSeq(s, i, i)

\* s has sub at position i
HasAt(s, sub, i) ==
  /\ i >= 1
  /\ i + Len(sub) - 1 <= Len(s)
  /\ SubSeq(s, i, i + Len(sub) - 1) = sub

\* the positions of s where sub starts
Positions(s, sub) == { i \in 1..Len(s) : HasAt(s, sub, i) }

Occurs(s, sub) == Positions(s, sub) # {}

Min(S) == CHOOSE x \in S : \A y \in S : x <= y

\* the number written in s from position i on (digits up to the first non-digit)
RECURSIVE NumberAt(_, _, _)
NumberAt(s, i, acc) ==
  IF i <= Len(s) /\ IsDigit(CharAt(s, i))
    THEN NumberAt(s, i + 1, 10 * acc + DigitValue(CharAt(s, i)))
    ELSE acc

\* the elements of a finite set of numbers in ascending order
RECURSIVE Ascending(_)
Ascending(S) ==
  IF S = {} THEN <<>> ELSE <<Min(S)>> \o Ascending(S \ {Min(S)})

\* the numbers of the placeholders $n of s, in the order they occur
Placeholders(s) ==
  LET at == Ascending({ i \in 1..(Len(s) - 1) :
                          CharAt(s, i) = "$" /\ IsDigit(CharAt(s, i + 1)) })
  IN  [k \in 1..Len(at) |-> NumberAt(s, at[k] + 1, 0)]

\* the double-quoted identifiers of s, in the order they occur
Quoted(s) ==
  LET at == Ascending({ i \in 1..Len(s) : CharAt(s, i) = "\"" })
  IN  [k \in 1..(Len(at) \div 2) |-> SubSeq(s, at[2 * k - 1] + 1, at[2 * k] - 1)]

\* the part of s between the first before and the first after that follows it
Between(s, before, after) ==
  LET b == Min(Positions(s, before)) + Len(before)
      a == Min({ i \in Positions(s, after) : i >= b })
  IN  SubSeq(s, b, a - 1)

(***************************************************************************)
(* routes/jobs.js, routes/companies.js, routes/users.js: the handlers.     *)
(* Each one is try { validate; call the model; send } catch { next(err) }. *)
(* jsonschema and the schemas are outside these files: whether the input   *)
(* validates, and with which errors, is the validator's answer.  The       *)
(* Company and User models are outside too: a call returns or throws.      *)
(***************************************************************************)
\* validator.errors.map(e => e.stack): empty when validator.valid
ValidatorErrors ==
  { <<>>, <<"instance requires property \"title\"">>,
    <<"instance.salary is not of a type(s) integer", "instance additionalProperty">> }

\* req.params.id
RouteIds == { Str(ToString(i)) : i \in 1..MaxId }

\* a number that is no number
NaN == [type |-> "number", num |-> 0, str |-> "NaN"]

\* the unary + of `+q.minSalary`, `+req.params.id`
ToNumber(v) ==
  CASE v.type = "number" -> v
    [] v.type = "boolean" -> Num(v.num)
    [] v.type = "undefined" -> NaN
    [] v.type = "string" ->
         IF \A i \in 1..Len(v.str) : IsDigit(CharAt(v.str, i))
           THEN Num(NumberAt(v.str, 1, 0))
           ELSE NaN

\* obj[k] = v: in place when obj has the property, appended otherwise
SetKey(obj, k, v) ==
  IF HasKey(obj, k)
    THEN [i \in 1..Len(obj) |-> IF obj[i].key = k THEN [key |-> k, value |-> v] ELSE obj[i]]
    ELSE Append(obj, [key |-> k, value |-> v])

\* if (q[k] !== undefined) q[k] = +q[k]
NumberIfDefined(q, k) ==
  IF Get(q, k) # Undefined THEN SetKey(q, k, ToNumber(Get(q, k))) ELSE q

\* GET /jobs: q.minSalary = +q.minSalary when defined; q.hasEquity = q.hasEquity === "true"
JobsQuery(q) ==
  LET n == NumberIfDefined(q, "minSalary")
  IN  SetKey(n, "hasEquity", Bool(Get(n, "hasEquity") = Str("true")))

\* GET /companies: minEmployees and maxEmployees to numbers when defined
CompaniesQuery(q) ==
  NumberIfDefined(NumberIfDefined(q, "minEmployees"), "maxEmployees")

\* a response sent with res.status(status).json(body)
Response(status, body) == [status |-> status, body |-> body]

\* a handler that goes on to the model although the input did not validate
Handled_unchecked(route, validates, errors, modelResult, response) ==
  [route |-> route, validates |-> validates, errors |-> errors,
   events |-> (IF validates THEN <<"validate">> ELSE <<>>)
                \o <<"model", IF modelResult.error # NoError THEN "next" ELSE "send">>,
   sent |-> IF modelResult.error # NoError THEN <<>> ELSE <<response>>,
   next |-> IF modelResult.error # NoError THEN <<modelResult.error>> ELSE <<>>]

\* what a handler does, in order: the events, the responses sent, the calls of
\* next.  modelResult is what the model call (and what follows it inside the
\* try) returned or threw; it is not looked at when validation fails.
Handled(route, validates, errors, modelResult, response) ==
  IF validates /\ Len(errors) > 0
    THEN [route |-> route, validates |-> validates, errors |-> errors,
          events |-> <<"validate", "next">>,
          sent |-> <<>>,
          next |-> <<BadRequestError(errors)>>]
    ELSE [route |-> route, validates |-> validates, errors |-> errors,
          events |-> (IF validates THEN <<"validate">> ELSE <<>>)
                       \o <<"model", IF modelResult.error # NoError THEN "next" ELSE "send">>,
          sent |-> IF modelResult.error # NoError THEN <<>> ELSE <<response>>,
          next |-> IF modelResult.error # NoError THEN <<modelResult.error>> ELSE <<>>]

\* the model call a handler makes, none when the handler stopped before it
ModelCall(h, c, qs, res) ==
  /\ call' = IF "model" \in { h.events[i] : i \in 1..Len(h.events) } THEN c ELSE NoCall
  /\ queries' = IF "model" \in { h.events[i] : i \in 1..Len(h.events) } THEN qs ELSE <<>>
  /\ result' = IF "model" \in { h.events[i] : i \in 1..Len(h.events) }
                 THEN res ELSE Returned(<<>>)

\* request bodies of POST /jobs
NewJobBodies ==
  { <<>>,
    <<[key |-> "title", value |-> Str("x")], [key |-> "salary", value |-> Num(5)],
      [key |-> "equity", value |-> Str("0.5")],
      [key |-> "companyHandle", value |-> Str("c1")]>> }

\* query strings of GET /jobs
JobsQueryValsOf ==
  [k \in CriteriaKeys |->
  CASE k = "minSalary" -> {Str("0"), Str("100")}
    [] k = "hasEquity" -> {Str("true"), Str("false")}
    [] k = "title" -> {Str("eng")}]

JobsQueries == JsObjects(CriteriaKeys, JobsQueryValsOf, Cardinality(CriteriaKeys))

\* POST /jobs
JobsPost ==
  /\ Idle
  /\ \E body \in NewJobBodies, errors \in ValidatorErrors, refused \in BOOLEAN :
       LET res == CreateResult(body, refused)
           h == Handled("POST /jobs", TRUE, errors, res,
                        Response(201, [job |-> res.value]))
       IN  /\ http' = h
           /\ ModelCall(h, [op |-> "create", id |-> Undefined, data |-> body,
                            jsToSql |-> <<>>],
                        CreateQueries(body, refused), res)

\* GET /jobs
JobsGetAll ==
  /\ Idle
  /\ \E query \in JobsQueries, errors \in ValidatorErrors, rows \in JobAnswers(Num(1)) :
       LET q == JobsQuery(query)
           res == Returned(rows)
           h == Handled("GET /jobs", TRUE, errors, res,
                        Response(200, [jobs |-> res.value]))
       IN  /\ http' = h
           /\ ModelCall(h, [op |-> "findAll", id |-> Undefined, data |-> q,
                            jsToSql |-> <<>>],
                        <<FindAllQuery(q)>>, res)

\* GET /jobs/:id
JobsGetOne ==
  /\ Idle
  /\ \E id \in RouteIds : \E jobRows \in GetJobAnswers(id) :
     \E companyRows \in CompanyAnswers(jobRows) :
       LET res == GetResult(id, jobRows, companyRows)
           h == Handled("GET /jobs/:id", FALSE, <<>>, res,
                        Response(200, [job |-> res.value]))
       IN  /\ http' = h
           /\ ModelCall(h, [op |-> "get", id |-> id, data |-> <<>>, jsToSql |-> <<>>],
                        GetQueries(id, jobRows, companyRows), res)

\* PATCH /jobs/:id
JobsPatch ==
  /\ Idle
  /\ \E id \in RouteIds, body \in UpdatePayloads, errors \in ValidatorErrors :
     \E rows \in JobAnswers(id) :
       LET res == UpdateResult(id, body, rows)
           h == Handled("PATCH /jobs/:id", TRUE, errors, res,
                        Response(200, [job |-> res.value]))
       IN  /\ http' = h
           /\ ModelCall(h, [op |-> "update", id |-> id, data |-> body,
                            jsToSql |-> JobFieldMap],
                        AllAnswered(UpdateQueries(id, body), rows), res)

\* DELETE /jobs/:id
JobsDelete ==
  /\ Idle
  /\ \E id \in RouteIds : \E rows \in RemoveAnswers(id) :
       LET res == RemoveResult(id, rows)
           h == Handled("DELETE /jobs/:id", FALSE, <<>>, res,
                        Response(200, [deleted |-> ToNumber(id)]))
       IN  /\ http' = h
           /\ ModelCall(h, [op |-> "remove", id |-> id, data |-> <<>>, jsToSql |-> <<>>],
                        RemoveQueries(id, rows), res)

\* what a call of the Company or User model gives its handler
OutsideResults(what) ==
  { Returned(Str(what)),
    Thrown(BadRequestError("Duplicate " \o what)),
    Thrown(NotFoundError("No " \o what)) }

\* request bodies and query strings of the companies and users routes
OutsideInputs ==
  { <<>>,
    <<[key |-> "name", value |-> Str("x")]>>,
    <<[key |-> "minEmployees", value |-> Str("2")],
      [key |-> "maxEmployees", value |-> Str("1")]>> }

\* a handler of the shape validate, one model call, send
OutsideHandled(route, op, id, data, errors, res, response) ==
  LET h == Handled(route, TRUE, errors, res, response)
  IN  /\ http' = h
      /\ ModelCall(h, [op |-> op, id |-> id, data |-> data, jsToSql |-> <<>>],
                   <<>>, res)

\* POST /companies
CompaniesPost ==
  /\ Idle
  /\ \E body \in OutsideInputs, errors \in ValidatorErrors,
        res \in OutsideResults("company") :
       OutsideHandled("POST /companies", "Company.create", Undefined, body, errors,
                      res, Response(201, [company |-> res.value]))

\* GET /companies
CompaniesGetAll ==
  /\ Idle
  /\ \E query \in OutsideInputs, errors \in ValidatorErrors,
        res \in OutsideResults("companies") :
       OutsideHandled("GET /companies", "Company.findAll", Undefined,
                      CompaniesQuery(query), errors,
                      res, Response(200, [companies |-> res.value]))

\* PATCH /companies/:handle
CompaniesPatch ==
  /\ Idle
  /\ \E body \in OutsideInputs, errors \in ValidatorErrors,
        res \in OutsideResults("company") :
       OutsideHandled("PATCH /companies/:handle", "Company.update", Str("c1"), body,
                      errors, res, Response(200, [company |-> res.value]))

\* PATCH /users/:username
UsersPatch ==
  /\ Idle
  /\ \E body \in OutsideInputs, errors \in ValidatorErrors,
        res \in OutsideResults("user") :
       OutsideHandled("PATCH /users/:username", "User.update", Str("u1"), body,
                      errors, res, Response(200, [user |-> res.value]))

\* createToken(user): a token, or a throw inside the try
TokenResults == { Returned(Str("token")), Thrown([name |-> "Error", message |-> "token"]) }

\* POST /users: User.register, then createToken, then the response
UsersPost ==
  /\ Idle
  /\ \E input \in OutsideInputs, errors \in ValidatorErrors,
        res \in OutsideResults("user"), token \in TokenResults :
       LET tried == IF res.error # NoError THEN res ELSE token
           h == Handled("POST /users", TRUE, errors, tried,
                        Response(201, [user |-> res.value, token |-> token.value]))
       IN  /\ http' = h
           /\ ModelCall(h, [op |-> "User.register", id |-> Undefined, data |-> input,
                            jsToSql |-> <<>>], <<>>, res)

Next ==
  \/ CallSqlForPartialUpdate
  \/ Update
  \/ FindAll
  \/ GetJob
  \/ Remove
  \/ JobsPost
  \/ JobsGetAll
  \/ JobsGetOne
  \/ JobsPatch
  \/ JobsDelete
  \/ CompaniesPost
  \/ CompaniesGetAll
  \/ CompaniesPatch
  \/ UsersPost
  \/ UsersPatch
  \/ Finish

Spec == Init /\ [][Next]_vars

(***************************************************************************)
(* The partial-update builder.                                             *)
(***************************************************************************)
TestFieldMap ==
  <<[key |-> "firstName", value |-> Str("first_name")],
    [key |-> "age", value |-> Str("age")]>>

\* C1: for a non-empty payload with keys k1..kn in insertion order, setCols is
\* the fragments "<col_i>"=$i, i = 1..n, joined with ", ", and values is the
\* payload's values in that order: the value at position i is the value of the
\* key whose column carries $i.  The payload in the opposite insertion order
\* gives the columns and the values in the opposite order, numbered 1..n again.
C1_OrderCorrespondence ==
  (call.op = "sqlForPartialUpdate" /\ Len(call.data) > 0) =>
    LET n == Len(call.data)
        r == result.value
        swapped == sqlForPartialUpdate(Reverse(call.data), call.jsToSql)
    IN  /\ result.error = NoError
        /\ r.setCols =
             Join([i \in 1..n |->
                     "\"" \o ColumnName(call.jsToSql, call.data[i].key)
                          \o "\"=$" \o ToString(i)], ", ")
        /\ Placeholders(r.setCols) = OneTo(n)
        /\ Len(r.values) = n
        /\ \A i \in 1..n : r.values[i] = call.data[i].value
        /\ Quoted(swapped.setCols) = Reverse(Quoted(r.setCols))
        /\ Placeholders(swapped.setCols) = OneTo(n)
        /\ swapped.values = Reverse(r.values)

\* the two-field test of helpers/sql.test.js
C1_Witness ==
  /\ call.op = "sqlForPartialUpdate"
  /\ call.data = <<[key |-> "firstName", value |-> Str("FirstnameTest")],
                   [key |-> "age", value |-> Num(50)]>>
  /\ call.jsToSql = TestFieldMap
  /\ result.error = NoError
  /\ result.value.setCols = "\"first_name\"=$1, \"age\"=$2"
  /\ result.value.values = <<Str("FirstnameTest"), Num(50)>>

\* C2: sqlForPartialUpdate with an empty payload, whatever the field map,
\* throws BadRequestError("No data") and returns no {setCols, values}; Job.update
\* with empty data throws that error and has handed no statement to db.query.
C2_EmptyPayloadRejected ==
  /\ (call.op = "sqlForPartialUpdate" /\ Len(call.data) = 0) =>
       /\ result.error = BadRequestError("No data")
       /\ result.value = <<>>
  /\ (call.op = "update" /\ Len(call.data) = 0) =>
       /\ result.error = BadRequestError("No data")
       /\ result.value = <<>>
       /\ queries = <<>>

C2_Witness ==
  /\ call.op = "update"
  /\ call.data = <<>>
  /\ result.error.name = "BadRequestError"
  /\ queries = <<>>

\* the SET clause a call built: what sqlForPartialUpdate returned, or the part
\* of the UPDATE statement between SET and WHERE
SetClause ==
  IF call.op = "update"
    THEN Between(queries[1].text, "UPDATE jobs SET ", " WHERE id = ")
    ELSE result.value.setCols

\* C3: the column of a payload key that is in the field map is the mapped
\* physical name, the column of a key that is not in the map is the key itself.
C3_ColumnResolution ==
  (call.op \in {"sqlForPartialUpdate", "update"} /\ Len(call.data) > 0) =>
    LET cols == Quoted(SetClause)
    IN  /\ Len(cols) = Len(call.data)
        /\ \A i \in 1..Len(call.data) :
             LET k == call.data[i].key
             IN  cols[i] = IF HasKey(call.jsToSql, k)
                             THEN Get(call.jsToSql, k).str
                             ELSE k

\* a mapped key beside an unmapped one
C3_Witness ==
  /\ call.op = "sqlForPartialUpdate"
  /\ ObjectKeys(call.data) = <<"zzz", "firstName">>
  /\ call.jsToSql = <<[key |-> "firstName", value |-> Str("first_name")]>>
  /\ Quoted(result.value.setCols) = <<"zzz", "first_name">>

(***************************************************************************)
(* Job.update.                                                             *)
(***************************************************************************)
Range(seq) == { seq[i] : i \in 1..Len(seq) }

\* C4: the UPDATE statement of Job.update(id, data) assigns neither the id
\* column nor the company_handle column in its SET clause, for every call.
C4_UpdateKeepsIdAndCompany ==
  (call.op = "update" /\ Len(queries) > 0) =>
    /\ "id" \notin Range(Quoted(SetClause))
    /\ "company_handle" \notin Range(Quoted(SetClause))

\* C5: for data with n >= 1 keys Job.update issues one statement whose SET
\* placeholders are $1..$n and whose row identifier is $(n+1), with the n
\* payload values followed by the id bound: every placeholder is a position of
\* the bound list, positions 1..n hold the payload values, position n+1 the id.
C5_UpdatePlaceholders ==
  (call.op = "update" /\ Len(call.data) > 0) =>
    /\ Len(queries) = 1
    /\ LET n == Len(call.data)
           q == queries[1]
       IN  /\ Placeholders(SetClause) = OneTo(n)
           /\ Between(q.text, " WHERE id = ", " RETURNING ") = "$" \o ToString(n + 1)
           /\ Placeholders(q.text) = OneTo(n + 1)
           /\ Len(q.values) = n + 1
           /\ \A k \in Range(Placeholders(q.text)) : k \in 1..Len(q.values)
           /\ \A i \in 1..n : q.values[i] = call.data[i].value
           /\ q.values[n + 1] = call.id

C5_Witness ==
  /\ call.op = "update"
  /\ Len(call.data) = 2
  /\ result.error = NoError
  /\ Len(queries) = 1
  /\ Placeholders(queries[1].text) = <<1, 2, 3>>
  /\ queries[1].values[3] = call.id

(***************************************************************************)
(* Job.findAll.                                                            *)
(***************************************************************************)
MinSalaryOf(criteria) == Get(criteria, "minSalary")

HasEquityOf(criteria) == Get(criteria, "hasEquity")

TitleOf(criteria) == Get(criteria, "title")

\* the bound value of the title criterion
Pattern(title) == Str("%" \o ToJsString(title) \o "%")

\* the predicate text between WHERE and ORDER BY
WherePredicate(text) == Between(text, " WHERE ", " ORDER BY title")

\* the number of clauses the criteria call for
ClauseCount(criteria) ==
  (IF MinSalaryOf(criteria) # Undefined THEN 1 ELSE 0)
    + (IF HasEquityOf(criteria) = Bool(TRUE) THEN 1 ELSE 0)
    + (IF TitleOf(criteria) # Undefined THEN 1 ELSE 0)

\* the number of values the criteria call for
ValueCount(criteria) ==
  (IF MinSalaryOf(criteria) # Undefined THEN 1 ELSE 0)
    + (IF TitleOf(criteria) # Undefined THEN 1 ELSE 0)

\* the value bound at the placeholder that follows each occurrence of prefix
BoundAfter(q, prefix) ==
  { IF NumberAt(q.text, i + Len(prefix), 0) \in 1..Len(q.values)
      THEN q.values[NumberAt(q.text, i + Len(prefix), 0)]
      ELSE Undefined
    : i \in Positions(q.text, prefix) }

\* C6: whatever the combination of minSalary, hasEquity and title, every
\* placeholder of the statement is the position, in the bound list, of the value
\* of its own criterion, and the placeholders used are exactly 1..len(values).
C6_FindAllPlaceholders ==
  call.op = "findAll" =>
    LET q == queries[1]
        minSalary == MinSalaryOf(call.data)
        title == TitleOf(call.data)
    IN  /\ Placeholders(q.text) = OneTo(Len(q.values))
        /\ Len(q.values) = ValueCount(call.data)
        /\ BoundAfter(q, "salary >= $") =
             IF minSalary # Undefined THEN {minSalary} ELSE {}
        /\ BoundAfter(q, "title ILIKE $") =
             IF title # Undefined THEN {Pattern(title)} ELSE {}

C6_Witness ==
  /\ call.op = "findAll"
  /\ MinSalaryOf(call.data) = Num(100)
  /\ HasEquityOf(call.data) = Bool(TRUE)
  /\ TitleOf(call.data) = Str("eng")
  /\ WherePredicate(queries[1].text) =
       "salary >= $1 AND equity > 0 AND title ILIKE $2"
  /\ queries[1].values = <<Num(100), Str("%eng%")>>

\* criteria without the property k
WithoutKey(criteria, k) == SelectSeq(criteria, LAMBDA p : p.key # k)

\* C7: hasEquity true adds exactly one predicate 'equity > 0' and no bound
\* value, the other placeholders numbered as without it; hasEquity false or
\* absent gives the statement and the bound list of the call with the flag
\* omitted, whatever the other criteria are.
C7_HasEquityAsymmetric ==
  call.op = "findAll" =>
    LET q == queries[1]
        omitted == FindAllQuery(WithoutKey(call.data, "hasEquity"))
    IN  IF HasEquityOf(call.data) = Bool(TRUE)
          THEN /\ Cardinality(Positions(q.text, "equity > 0")) = 1
               /\ q.values = omitted.values
               /\ Placeholders(q.text) = Placeholders(omitted.text)
          ELSE /\ q = omitted
               /\ ~Occurs(q.text, "equity >")

C7_Witness ==
  /\ call.op = "findAll"
  /\ HasEquityOf(call.data) = Bool(FALSE)
  /\ MinSalaryOf(call.data) = Num(100)
  /\ WherePredicate(queries[1].text) = "salary >= $1"
  /\ queries[1].values = <<Num(100)>>

\* C8: the statement has the WHERE keyword exactly when a criterion emitted a
\* clause; with none (no criteria, undefined ones, hasEquity false) it is the
\* base SELECT followed directly by ORDER BY title with nothing bound; WHERE is
\* never followed by an empty predicate; an absent criterion adds no clause and
\* no value.
C8_WhereOnlyWithPredicate ==
  call.op = "findAll" =>
    LET q == queries[1]
        n == ClauseCount(call.data)
    IN  /\ Occurs(q.text, "WHERE") <=> n > 0
        /\ n = 0 => /\ q.text = FindAllBase \o " ORDER BY title"
                    /\ q.values = <<>>
        /\ n > 0 => /\ WherePredicate(q.text) # ""
                    /\ Cardinality(Positions(WherePredicate(q.text), " AND ")) = n - 1
        /\ Len(q.values) = ValueCount(call.data)
        /\ MinSalaryOf(call.data) = Undefined => ~Occurs(q.text, "salary >=")
        /\ HasEquityOf(call.data) = Undefined => ~Occurs(q.text, "equity >")
        /\ TitleOf(call.data) = Undefined => ~Occurs(q.text, "title ILIKE")

C8_Witness ==
  /\ call.op = "findAll"
  /\ call.data = <<[key |-> "hasEquity", value |-> Bool(FALSE)]>>
  /\ queries[1].text = FindAllBase \o " ORDER BY title"
  /\ queries[1].values = <<>>

\* the criteria read by name
SameCriteria(c1, c2) ==
  /\ MinSalaryOf(c1) = MinSalaryOf(c2)
  /\ HasEquityOf(c1) = HasEquityOf(c2)
  /\ TitleOf(c1) = TitleOf(c2)

\* C9: the predicates are joined with ' AND ' in the order salary, equity,
\* title, whatever the order the criteria were supplied in: criteria with the
\* same fields in another order give the same statement and bound list.
C9_FixedClauseOrder ==
  call.op = "findAll" =>
    LET q == queries[1]
        sal == Positions(q.text, "salary >= $")
        eq == Positions(q.text, "equity > 0")
        ti == Positions(q.text, "title ILIKE $")
        expected ==
          (IF MinSalaryOf(call.data) # Undefined THEN <<"salary >= $1">> ELSE <<>>)
            \o (IF HasEquityOf(call.data) = Bool(TRUE) THEN <<"equity > 0">> ELSE <<>>)
            \o (IF TitleOf(call.data) # Undefined
                  THEN <<"title ILIKE $" \o ToString(ValueCount(call.data))>>
                  ELSE <<>>)
    IN  /\ \A a \in sal, b \in eq \cup ti : a < b
        /\ \A b \in eq, c \in ti : b < c
        /\ Len(expected) > 0 => WherePredicate(q.text) = Join(expected, " AND ")
        /\ \A c2 \in CriteriaSets : SameCriteria(call.data, c2) => FindAllQuery(c2) = q

\* the title supplied before the salary
C9_Witness ==
  /\ call.op = "findAll"
  /\ call.data = <<[key |-> "title", value |-> Str("eng")],
                   [key |-> "minSalary", value |-> Num(100)]>>
  /\ WherePredicate(queries[1].text) = "salary >= $1 AND title ILIKE $2"
  /\ queries[1].values = <<Num(100), Str("%eng%")>>

\* the same criteria present, hasEquity of the same truth value
SameShape(c1, c2) ==
  /\ (MinSalaryOf(c1) # Undefined) <=> (MinSalaryOf(c2) # Undefined)
  /\ (HasEquityOf(c1) = Bool(TRUE)) <=> (HasEquityOf(c2) = Bool(TRUE))
  /\ (TitleOf(c1) # Undefined) <=> (TitleOf(c2) # Undefined)

\* C10: no value is written into a statement text.  Two findAll criteria sets of
\* the same shape give the same text whatever minSalary and title are, the
\* title being bound as '%<title>%' and absent from the text; two payloads with
\* the same keys in the same order, under the same field map, give the same
\* setCols whatever their values are.
C10_ValuesNeverInlined ==
  /\ call.op = "findAll" =>
       LET q == queries[1]
           title == TitleOf(call.data)
       IN  /\ \A c2 \in CriteriaSets :
                SameShape(call.data, c2) => FindAllQuery(c2).text = q.text
           /\ title # Undefined =>
                /\ Pattern(title) \in Range(q.values)
                /\ ~Occurs(q.text, "%")
                /\ title.str # "" => ~Occurs(q.text, title.str)
  /\ (call.op = "sqlForPartialUpdate" /\ Len(call.data) > 0) =>
       \A p2 \in SqlPayloads :
         ObjectKeys(p2) = ObjectKeys(call.data) =>
           sqlForPartialUpdate(p2, call.jsToSql).setCols = result.value.setCols

C10_Witness ==
  /\ call.op = "findAll"
  /\ TitleOf(call.data) = Str("eng")
  /\ MinSalaryOf(call.data) = Num(0)
  /\ queries[1].values = <<Num(0), Str("%eng%")>>
  /\ \E c2 \in CriteriaSets :
       /\ SameShape(call.data, c2)
       /\ TitleOf(c2) = Str("")
       /\ MinSalaryOf(c2) = Num(100)
       /\ FindAllQuery(c2).text = queries[1].text

(***************************************************************************)
(* Job.get.                                                                *)
(***************************************************************************)
\* C11: Job.get(id) issues the job lookup first; when it answers no row the
\* call throws NotFoundError and the company lookup is not issued; the company
\* lookup is issued only behind a job row, with that row's company handle; the
\* job returned has the company lookup's row nested under company (undefined
\* there when the lookup answered no row) and no companyHandle field.
C11_TwoStepFetch ==
  call.op = "get" =>
    /\ Len(queries) >= 1
    /\ queries[1].text = GetJobSql
    /\ queries[1].values = <<call.id>>
    /\ \A i \in 2..Len(queries) : queries[i].text = GetCompanySql
    /\ IF Len(queries[1].rows) = 0
         THEN /\ Len(queries) = 1
              /\ result.error.name = "NotFoundError"
         ELSE /\ Len(queries) = 2
              /\ queries[2].values = <<queries[1].rows[1].companyHandle>>
              /\ result.error = NoError
              /\ DOMAIN result.value = {"id", "title", "salary", "equity", "company"}
              /\ result.value.company =
                   IF Len(queries[2].rows) > 0 THEN queries[2].rows[1] ELSE Undefined
              /\ result.value.id = queries[1].rows[1].id

\* a job of company c2 found and returned with its company
C11_Witness ==
  /\ call.op = "get"
  /\ Len(queries) = 2
  /\ queries[2].values = <<Str("c2")>>
  /\ Len(queries[2].rows) = 1
  /\ result.error = NoError
  /\ result.value.company.handle = Str("c2")

(***************************************************************************)
(* Not found.                                                              *)
(***************************************************************************)
JobIdRoutes == {"GET /jobs/:id", "PATCH /jobs/:id", "DELETE /jobs/:id"}

\* the statement keyed by the job id matched no row
MatchedNoRow == Len(queries) >= 1 /\ Len(queries[1].rows) = 0

\* C12: Job.get, Job.update and Job.remove throw a NotFoundError whose message
\* names the id exactly when their statement matched no row, and return
\* normally when it matched one; in the jobs routes on an id that error goes
\* to next(err), and no body is sent for an id that matched nothing.
C12_MissingJobNotFound ==
  /\ (call.op \in {"get", "update", "remove"} /\ Len(queries) >= 1) =>
       IF Len(queries[1].rows) = 0
         THEN /\ result.error.name = "NotFoundError"
              /\ result.error.message = "No job: " \o ToJsString(call.id)
         ELSE result.error = NoError
  /\ (http.route \in JobIdRoutes /\ result.error.name = "NotFoundError") =>
       /\ http.sent = <<>>
       /\ http.next = <<result.error>>
  /\ (http.route \in JobIdRoutes /\ MatchedNoRow) => http.sent = <<>>

\* DELETE /jobs/2 when no job 2 exists
C12_Witness ==
  /\ http.route = "DELETE /jobs/:id"
  /\ call.op = "remove"
  /\ call.id = Str("2")
  /\ MatchedNoRow
  /\ http.sent = <<>>
  /\ http.next = <<NotFoundError("No job: 2")>>

(***************************************************************************)
(* Validation before the model.                                            *)
(***************************************************************************)
ValidatingRoutes ==
  {"POST /jobs", "GET /jobs", "PATCH /jobs/:id",
   "POST /companies", "GET /companies", "PATCH /companies/:handle",
   "POST /users", "PATCH /users/:username"}

\* the places of an event in a handler's run
EventPlaces(e) == { i \in 1..Len(http.events) : http.events[i] = e }

\* C13: a validating handler calls its model method only after validation
\* succeeded; when validation fails, next is called exactly once with a
\* BadRequestError built from the validator's errors, no model method is
\* called and nothing is sent; every run of a handler ends in exactly one of
\* a response sent or a call of next(err).
C13_ValidateBeforeModel ==
  /\ http.route \in ValidatingRoutes =>
       /\ http.validates
       /\ EventPlaces("validate") = {1}
       /\ \A m \in EventPlaces("model") : m > 1 /\ http.errors = <<>>
       /\ http.errors # <<>> =>
            /\ EventPlaces("model") = {}
            /\ call = NoCall
            /\ queries = <<>>
            /\ http.sent = <<>>
            /\ Len(http.next) = 1
            /\ http.next[1].name = "BadRequestError"
            /\ http.next[1].message = http.errors
       /\ http.errors = <<>> => call.op # "none"
  /\ http.route # "none" =>
       /\ Len(http.sent) + Len(http.next) = 1
       /\ Cardinality(EventPlaces("send") \cup EventPlaces("next")) = 1
       /\ EventPlaces("send") \cup EventPlaces("next") = {Len(http.events)}
       /\ Len(http.sent) = Cardinality(EventPlaces("send"))

\* POST /users with a body that breaks two rules of the schema
C13_Witness ==
  /\ http.route = "POST /users"
  /\ Len(http.errors) = 2
  /\ call = NoCall
  /\ http.sent = <<>>
  /\ http.next = <<BadRequestError(http.errors)>>

====
